---- MODULE Spec2Model ----
(***************************************************************************)
(* Model of the comic generation job pipeline:                             *)
(*   src/src/api/main.py     job registry, generate_comic,                 *)
(*                           generate_comic_task, get_job_status           *)
(*   src/src/main.py         ComicBookGenerator.generate_from_pdf/_text    *)
(*   src/src/tools/image_tools.py   ModelsLabImageTool._run                *)
(*   src/src/tools/export_tools.py  ExportManager.export_all               *)
(*                                                                         *)
(* Optional values (Python None / a value) are sequences of length 0 / 1.  *)
(* progress is kept in tenths (0.1 -> 1, 1.0 -> 10).                       *)
(***************************************************************************)
EXTENDS Integers, Sequences, FiniteSets, TLC

VARIABLES jobs, data, pc, running, loc, cancelled, response, ex, layout, exporter, kick

vars == <<jobs, data, pc, running, loc, cancelled, response, ex, layout, exporter, kick>>

jobVars == <<jobs, data, pc, running, loc, cancelled, response>>

(* ------------------------------ bounds -------------------------------- *)
MaxJobs == 2

MaxPanels == 2

MaxFormats == 2

MaxGridPanels == 150

MaxDegraded == 2

MaxExportPages == 3

JobIds == 1..MaxJobs

None == <<>>

Some(x) == <<x>>

(* ----------------------- job registry (api/main.py) -------------------- *)
StatusValues == {"queued", "processing", "completed", "failed"}

QueuedJob == [status |-> "queued", progress |-> 0, current_stage |-> "Queued",
              message |-> "Comic generation queued", result |-> None]

TextInputs == {"None", "text"}

FileInputs == {"None", "upload"}

(* art_style, target_pages, target_audience of the form: the defaults of  *)
(* lines 223-225, or values the client chose                              *)
DefaultOptions == [art_style |-> "cartoon", target_pages |-> 20, target_audience |-> "general"]

RequestOptions == {DefaultOptions,
                   [art_style |-> "manga", target_pages |-> 5, target_audience |-> "children"]}

(* the task's argument dict.  Its source fields are blanked once the      *)
(* generator has been called (their last read, lines 187-198), the        *)
(* options once the content stage has been started with them; NoData      *)
(* after that                                                             *)
NoData == [text |-> "None", file_path |-> "None", options |-> None]

(* locals of the generator call made by the task that holds the event loop *)
EmptyLoc == [formats |-> <<>>, call |-> None, content_inputs |-> None,
             script |-> None, panel_inputs |-> <<>>,
             panel_results |-> <<>>, panel_artworks |-> None,
             exported |-> {}, export_failed |-> {},
             final_comic |-> None, exc |-> "none"]

(* the frame of generate_from_pdf / generate_from_text is gone: only what *)
(* the call returned or raised, and what its export tools did, is left   *)
FrameDropped(l) == [l EXCEPT !.call = None, !.content_inputs = None,
                             !.script = None, !.panel_inputs = <<>>,
                             !.panel_results = <<>>, !.panel_artworks = None]

(* background task positions *)
SuspendedPcs == {"g_intake", "g_content", "g_visual", "g_synthesis"}

Created == DOMAIN jobs

Init ==
    /\ jobs = <<>>
    /\ data = <<>>
    /\ pc = [j \in JobIds |-> "none"]
    /\ running = 0
    /\ loc = EmptyLoc
    /\ cancelled = {}
    /\ response = None
    /\ ex = [pc |-> "idle"]
    /\ layout = [pc |-> "idle"]
    /\ exporter = [pc |-> "idle"]
    /\ kick = [pc |-> "idle"]

(* POST /api/v1/generate.  The job is registered before the upload is     *)
(* written; a failing write raises from the handler after the job exists  *)
(* and before the background task is added.                               *)
generate_comic(text, file, options, write_ok) ==
    LET job_id == Cardinality(Created) + 1 IN
    /\ running = 0
    /\ job_id \in JobIds
    /\ jobs' = jobs @@ (job_id :> QueuedJob)
    /\ data' = data @@ (job_id :> IF file # "None" /\ ~write_ok THEN NoData
                                   ELSE [text |-> text,
                                         file_path |-> IF file = "None" THEN "None" ELSE "temp",
                                         options |-> Some(options)])
    /\ pc' = [pc EXCEPT ![job_id] = IF file # "None" /\ ~write_ok THEN "orphan" ELSE "pending"]
    /\ response' = IF file # "None" /\ ~write_ok
                   THEN Some([code |-> 500, body |-> None])
                   ELSE Some([code |-> 200, body |-> Some(QueuedJob)])
    /\ UNCHANGED <<running, loc, cancelled, ex, layout, exporter, kick>>

(* GET /api/v1/status/{job_id} *)
get_job_status(job_id) ==
    /\ running = 0
    /\ response' = IF job_id \in Created THEN Some([code |-> 200, body |-> Some(jobs[job_id])])
                   ELSE Some([code |-> 404, body |-> None])
    /\ UNCHANGED <<jobs, data, pc, running, loc, cancelled, ex, layout, exporter, kick>>

(* GET /api/v1/download/{job_id}?format=...  (api/main.py 277-298).       *)
(* exists: whether the path stored in the result is a file on disk.       *)
DownloadFormats == {"pdf", "cbz"}

DownloadError(code, detail, job_id, format, exists) ==
    Some([code |-> code, detail |-> detail, job_id |-> job_id, format |-> format,
          file |-> "None", file_exists |-> exists, media_type |-> "None"])

FileResponse(job_id, format, path, exists) ==
    Some([code |-> 200, detail |-> "file", job_id |-> job_id, format |-> format,
          file |-> path, file_exists |-> exists,
          media_type |-> IF format = "pdf" THEN "application/pdf" ELSE "application/x-cbz"])

download_comic_without_status_check(job_id, format, exists) ==
    /\ running = 0
    /\ response' =
         IF job_id \notin Created THEN DownloadError(404, "Job not found", job_id, format, exists)
         ELSE IF jobs[job_id].result = None \/ jobs[job_id].result[1].file_path = "None"
         THEN DownloadError(404, "File not found", job_id, format, exists)
         ELSE IF ~exists THEN DownloadError(404, "File not found", job_id, format, exists)
         ELSE FileResponse(job_id, format, jobs[job_id].result[1].file_path, exists)
    /\ UNCHANGED <<jobs, data, pc, running, loc, cancelled, ex, layout, exporter, kick>>

download_comic(job_id, format, exists) ==
    /\ running = 0
    /\ response' =
         IF job_id \notin Created THEN DownloadError(404, "Job not found", job_id, format, exists)
         ELSE IF jobs[job_id].status # "completed"
         THEN DownloadError(400, "Comic not ready", job_id, format, exists)
         ELSE IF jobs[job_id].result = None \/ jobs[job_id].result[1].file_path = "None"
         THEN DownloadError(404, "File not found", job_id, format, exists)
         ELSE IF ~exists THEN DownloadError(404, "File not found", job_id, format, exists)
         ELSE FileResponse(job_id, format, jobs[job_id].result[1].file_path, exists)
    /\ UNCHANGED <<jobs, data, pc, running, loc, cancelled, ex, layout, exporter, kick>>

(* ------------- generate_comic_task (api/main.py 169-215) --------------- *)
Raise(j, cause) ==
    /\ pc' = [pc EXCEPT ![j] = "except"]
    /\ loc' = [loc EXCEPT !.exc = cause]

(* lines 171-174: the task takes the event loop and marks the job *)
task_start(j) ==
    /\ running = 0
    /\ j \in Created
    /\ pc[j] = "pending"
    /\ running' = j
    /\ jobs' = [jobs EXCEPT ![j].status = "processing",
                            ![j].current_stage = "Initializing",
                            ![j].progress = 1]
    /\ pc' = [pc EXCEPT ![j] = "l176"]
    /\ response' = None
    /\ UNCHANGED <<data, loc, cancelled, ex, layout, exporter, kick>>

(* lines 176-180: build the generator, then label the content stage *)
task_content_label(j, ctor_ok) ==
    /\ running = j
    /\ pc[j] = "l176"
    /\ IF ctor_ok
       THEN /\ jobs' = [jobs EXCEPT ![j].current_stage = "Generating content",
                                    ![j].progress = 3]
            /\ pc' = [pc EXCEPT ![j] = "l183"]
            /\ UNCHANGED loc
       ELSE /\ Raise(j, "crew error")
            /\ UNCHANGED jobs
    /\ response' = None
    /\ UNCHANGED <<data, running, cancelled, ex, layout, exporter, kick>>

(* lines 183-184 *)
task_visual_label(j) ==
    /\ running = j
    /\ pc[j] = "l183"
    /\ jobs' = [jobs EXCEPT ![j].current_stage = "Generating artwork",
                            ![j].progress = 6]
    /\ pc' = [pc EXCEPT ![j] = "l187"]
    /\ response' = None
    /\ UNCHANGED <<data, running, loc, cancelled, ex, layout, exporter, kick>>

(* lines 187-199: the keyword arguments of the call.  Both calls pass     *)
(* art_style and target_pages and nothing else of the options.            *)
GeneratorCall(d) ==
    [fn |-> IF d.file_path # "None" THEN "generate_from_pdf" ELSE "generate_from_text",
     kwargs |-> [art_style |-> d.options[1].art_style,
                 target_pages |-> d.options[1].target_pages]]

task_call_generator_completed_early(j) ==
    /\ running = j
    /\ pc[j] = "l187"
    /\ loc' = [loc EXCEPT !.formats = <<"pdf">>, !.call = Some(GeneratorCall(data[j]))]
    /\ jobs' = [jobs EXCEPT ![j].status = "completed"]
    /\ pc' = [pc EXCEPT ![j] = IF data[j].file_path # "None" THEN "g_intake" ELSE "g_content"]
    /\ data' = [data EXCEPT ![j].text = "None", ![j].file_path = "None"]
    /\ response' = None
    /\ UNCHANGED <<running, cancelled, ex, layout, exporter, kick>>

(* lines 187-199: neither call passes output_formats, so both generator   *)
(* entry points fall back to ["pdf"] (main.py 60 and 251)                 *)
task_call_generator(j) ==
    /\ running = j
    /\ pc[j] = "l187"
    /\ loc' = [loc EXCEPT !.formats = <<"pdf">>, !.call = Some(GeneratorCall(data[j]))]
    /\ pc' = [pc EXCEPT ![j] = IF data[j].file_path # "None" THEN "g_intake" ELSE "g_content"]
    /\ data' = [data EXCEPT ![j].text = "None", ![j].file_path = "None"]
    /\ response' = None
    /\ UNCHANGED <<jobs, running, cancelled, ex, layout, exporter, kick>>

(* lines 202-204 *)
task_mark_completed(j) ==
    /\ running = j
    /\ pc[j] = "l202"
    /\ jobs' = [jobs EXCEPT ![j].status = "completed",
                            ![j].current_stage = "Complete",
                            ![j].progress = 10]
    /\ pc' = [pc EXCEPT ![j] = "l205"]
    /\ response' = None
    /\ UNCHANGED <<data, running, loc, cancelled, ex, layout, exporter, kick>>

(* lines 205-210 *)
JobResult(comic) ==
    [title |-> comic.title, total_pages |-> comic.total_pages, format |-> comic.format,
     file_path |-> IF Len(comic.pages) > 0 THEN comic.pages[1] ELSE "None"]

task_set_result(j) ==
    /\ running = j
    /\ pc[j] = "l205"
    /\ jobs' = [jobs EXCEPT ![j].result = Some(JobResult(loc.final_comic[1]))]
    /\ pc' = [pc EXCEPT ![j] = "return"]
    /\ response' = None
    /\ UNCHANGED <<data, running, loc, cancelled, ex, layout, exporter, kick>>

task_except_resets_progress(j) ==
    /\ running = j
    /\ pc[j] = "except"
    /\ jobs' = [jobs EXCEPT ![j].status = "failed", ![j].message = loc.exc,
                            ![j].progress = 0]
    /\ pc' = [pc EXCEPT ![j] = "return"]
    /\ loc' = FrameDropped(loc)
    /\ response' = None
    /\ UNCHANGED <<data, running, cancelled, ex, layout, exporter, kick>>

task_except_stores_error_result(j) ==
    /\ running = j
    /\ pc[j] = "except"
    /\ jobs' = [jobs EXCEPT ![j].status = "failed", ![j].message = loc.exc,
                            ![j].result = Some([title |-> "error", total_pages |-> 0,
                                                format |-> "None", file_path |-> "None"])]
    /\ pc' = [pc EXCEPT ![j] = "return"]
    /\ loc' = FrameDropped(loc)
    /\ response' = None
    /\ UNCHANGED <<data, running, cancelled, ex, layout, exporter, kick>>

(* lines 212-215 *)
task_except(j) ==
    /\ running = j
    /\ pc[j] = "except"
    /\ jobs' = [jobs EXCEPT ![j].status = "failed", ![j].message = loc.exc]
    /\ pc' = [pc EXCEPT ![j] = "return"]
    /\ loc' = FrameDropped(loc)
    /\ response' = None
    /\ UNCHANGED <<data, running, cancelled, ex, layout, exporter, kick>>

(* the coroutine ends: its locals die and the event loop is free again *)
task_return(j) ==
    /\ running = j
    /\ pc[j] = "return"
    /\ running' = 0
    /\ loc' = EmptyLoc
    /\ pc' = [pc EXCEPT ![j] = "done"]
    /\ data' = [data EXCEPT ![j] = NoData]
    /\ response' = None
    /\ UNCHANGED <<jobs, cancelled, ex, layout, exporter, kick>>

(* ------------- ComicBookGenerator (src/main.py) ------------------------ *)
(* Stage 1, generate_from_pdf only (lines 64-80) *)
IntakeOutcomes == {"raise", "no_pydantic", "document"}

generate_intake_logs_and_continues(j, outcome) ==
    /\ running = j
    /\ pc[j] = "g_intake"
    /\ CASE outcome = "raise" -> Raise(j, "crew error")
         [] outcome = "no_pydantic" ->
                /\ pc' = [pc EXCEPT ![j] = "g_content"]
                /\ loc' = [loc EXCEPT !.exc = "Document processing failed"]
         [] OTHER -> /\ pc' = [pc EXCEPT ![j] = "g_content"]
                     /\ UNCHANGED loc
    /\ response' = None
    /\ UNCHANGED <<jobs, data, running, cancelled, ex, layout, exporter, kick>>

generate_intake(j, outcome) ==
    /\ running = j
    /\ pc[j] = "g_intake"
    /\ CASE outcome = "raise" -> Raise(j, "crew error")
         [] outcome = "no_pydantic" -> Raise(j, "Document processing failed")
         [] OTHER -> /\ pc' = [pc EXCEPT ![j] = "g_content"]
                     /\ UNCHANGED loc
    /\ response' = None
    /\ UNCHANGED <<jobs, data, running, cancelled, ex, layout, exporter, kick>>

(* The ComicScript schema (schemas.py 127-141) constrains panel_number    *)
(* only by ge=1: any list of panels, in any order, is a valid script.     *)
(* The scripts drawn here are the lists of distinct panel numbers.        *)
PanelNumbers == 1..MaxPanels

Distinct(seq) == \A a, b \in 1..Len(seq) : a # b => seq[a] # seq[b]

Scripts == {s \in UNION {[1..n -> [panel_number : PanelNumbers]] : n \in 0..MaxPanels} :
               Distinct(s)}

(* the content crew raises; its output has neither pydantic nor           *)
(* json_dict; its json_dict does not validate as a ComicScript; or there  *)
(* is a script                                                            *)
ContentOutcomes == {"raise", "no_structured_output", "invalid_json_dict", "script"}

(* lines 116-132 and 215-231: one input per panel, in script order *)
PanelInputs(script) == [i \in 1..Len(script) |-> [panel_number |-> script[i].panel_number]]

(* self.config of the generator built at api/main.py 176 without a config *)
GeneratorConfig == <<>>

(* dict.get(key, default) *)
Get(dict, key, default) == IF key \in DOMAIN dict THEN dict[key] ELSE default

(* content_inputs, main.py 87-95 (generate_from_pdf: parameters and       *)
(* self.config) and 186-194 (generate_from_text: kwargs)                  *)
ContentInputs(call) ==
    IF call.fn = "generate_from_pdf"
    THEN [art_style |-> call.kwargs.art_style,
          target_pages |-> call.kwargs.target_pages,
          target_audience |-> Get(GeneratorConfig, "target_audience", "general")]
    ELSE [art_style |-> Get(call.kwargs, "art_style", "cartoon"),
          target_pages |-> Get(call.kwargs, "target_pages", 20),
          target_audience |-> Get(call.kwargs, "target_audience", "general")]

(* Stage 2 (lines 82-132 and 186-231): the content crew is started with   *)
(* content_inputs, then its output is looked at                           *)
generate_content(j, outcome, script) ==
    /\ running = j
    /\ pc[j] = "g_content"
    /\ CASE outcome = "raise" ->
                /\ pc' = [pc EXCEPT ![j] = "except"]
                /\ loc' = [loc EXCEPT !.exc = "crew error", !.call = None,
                                      !.content_inputs = Some(ContentInputs(loc.call[1]))]
         [] outcome = "no_structured_output" ->
                /\ pc' = [pc EXCEPT ![j] = "except"]
                /\ loc' = [loc EXCEPT
                              !.exc = "Content generation failed: No structured output received",
                              !.call = None,
                              !.content_inputs = Some(ContentInputs(loc.call[1]))]
         [] outcome = "invalid_json_dict" ->
                /\ pc' = [pc EXCEPT ![j] = "except"]
                /\ loc' = [loc EXCEPT !.exc = "validation error for ComicScript",
                                      !.call = None,
                                      !.content_inputs = Some(ContentInputs(loc.call[1]))]
         [] OTHER -> /\ pc' = [pc EXCEPT ![j] = "g_visual"]
                     /\ loc' = [loc EXCEPT !.script = Some(script),
                                           !.panel_inputs = PanelInputs(script),
                                           !.call = None,
                                           !.content_inputs = Some(ContentInputs(loc.call[1]))]
    /\ data' = [data EXCEPT ![j] = NoData]
    /\ response' = None
    /\ UNCHANGED <<jobs, running, cancelled, ex, layout, exporter, kick>>

(* ModelsLabImageTool._run, handling of the reply (image_tools.py 128-156):   *)
(* a finished image gives its URL, a pending job gives the handle         *)
(* "processing:<id>" as image_url with no further request, anything else  *)
(* raises.                                                                *)
ServiceResponses == {"success", "processing", "error"}

ModelsLabImageTool_run(api_status) ==
    CASE api_status = "success" -> [raised |-> FALSE, image_url |-> "url"]
      [] api_status = "processing" -> [raised |-> FALSE, image_url |-> "processing:id"]
      [] OTHER -> [raised |-> TRUE, image_url |-> ""]

IsPendingHandle(image_url) == image_url = "processing:id"

(* what the illustration crew makes of the tool run: the exception leaves *)
(* kickoff, or the task output does or does not coerce into PanelArtwork  *)
CrewOutcomes == {"propagate", "no_pydantic", "pydantic"}

(* Stage 3, Crew.kickoff_for_each (lines 134-135, 233-234): the inputs    *)
(* are run one after the other, results are appended in input order and   *)
(* an exception of one run ends the whole call.                           *)
kickoff_for_each_panel(j, api_status, crew) ==
    LET i == Len(loc.panel_results) + 1
        tool == ModelsLabImageTool_run(api_status)
    IN  /\ running = j
        /\ pc[j] = "g_visual"
        /\ i <= Len(loc.panel_inputs)
        /\ (crew = "propagate") => tool.raised
        /\ (crew = "pydantic") => ~tool.raised
        /\ IF crew = "propagate"
           THEN /\ pc' = [pc EXCEPT ![j] = "except"]
                /\ loc' = [loc EXCEPT !.exc = "ModelsLab API error", !.content_inputs = None]
           ELSE /\ loc' = [loc EXCEPT !.content_inputs = None, !.panel_results = Append(@,
                            IF crew = "pydantic"
                            THEN Some([panel_number |-> loc.panel_inputs[i].panel_number,
                                       image_url |-> tool.image_url])
                            ELSE None)]
                /\ UNCHANGED pc
        /\ response' = None
        /\ UNCHANGED <<jobs, data, running, cancelled, ex, layout, exporter, kick>>

(* lines 140-154, 239-253: [r.pydantic for r in panel_results] *)
generate_synthesis_inputs(j) ==
    /\ running = j
    /\ pc[j] = "g_visual"
    /\ Len(loc.panel_results) = Len(loc.panel_inputs)
    /\ loc' = [loc EXCEPT !.panel_artworks = Some(loc.panel_results), !.content_inputs = None]
    /\ pc' = [pc EXCEPT ![j] = "g_synthesis"]
    /\ response' = None
    /\ UNCHANGED <<jobs, data, running, cancelled, ex, layout, exporter, kick>>

(* Stage 4 (lines 156-164, 255-263).  The export tools are run by the     *)
(* export agent; a tool that raises is reported to the agent, not to the  *)
(* caller of kickoff.                                                     *)
SynthesisOutcomes == {"raise", "no_pydantic", "comic"}

PageLists == {<<>>, <<"page_1.png">>}

Range(seq) == {seq[i] : i \in 1..Len(seq)}

generate_synthesis(j, outcome, pages, exported) ==
    /\ running = j
    /\ pc[j] = "g_synthesis"
    /\ exported \subseteq Range(loc.formats)
    /\ CASE outcome = "raise" ->
                /\ pc' = [pc EXCEPT ![j] = "except"]
                /\ loc' = [loc EXCEPT !.exc = "crew error",
                                      !.exported = exported,
                                      !.export_failed = Range(loc.formats) \ exported]
         [] outcome = "no_pydantic" ->
                /\ pc' = [pc EXCEPT ![j] = "except"]
                /\ loc' = [loc EXCEPT !.exc = "'NoneType' object has no attribute 'title'",
                                      !.exported = exported,
                                      !.export_failed = Range(loc.formats) \ exported]
         [] OTHER ->
                /\ pc' = [pc EXCEPT ![j] = "l202"]
                /\ loc' = [FrameDropped(loc) EXCEPT
                                      !.final_comic = Some([title |-> "title", total_pages |-> 1,
                                                            format |-> "pdf", pages |-> pages]),
                                      !.exported = exported,
                                      !.export_failed = Range(loc.formats) \ exported]
    /\ response' = None
    /\ UNCHANGED <<jobs, data, running, cancelled, ex, layout, exporter, kick>>

(* ------------- ExportManager.export_all (export_tools.py 385-424) ------ *)
Exporters == {"pdf", "cbz", "web"}

(* "epub" stands for any name export_all has no branch for *)
FormatNames == Exporters \cup {"epub"}

FormatLists == UNION {[1..n -> FormatNames] : n \in 0..MaxFormats}

(* PDFExportTool._run / CBZExportTool._run / WebExportTool._run: the      *)
(* result on the path that does not raise                                 *)
ExportResult(format_name, pages) == [format |-> format_name, page_count |-> Len(pages)]

(* results[key] = value of a Python dict *)
DictSet(d, key, value) == [k \in DOMAIN d \cup {key} |-> IF k = key THEN value ELSE d[k]]

InitExport ==
    /\ jobs = <<>>
    /\ data = <<>>
    /\ pc = [j \in JobIds |-> "none"]
    /\ running = 0
    /\ loc = EmptyLoc
    /\ cancelled = {}
    /\ response = None
    /\ layout = [pc |-> "idle"]
    /\ exporter = [pc |-> "idle"]
    /\ kick = [pc |-> "idle"]
    /\ \E formats \in FormatLists, raising \in SUBSET Exporters, pages \in PageLists :
          ex = [pc |-> "loop", formats |-> formats, raising |-> raising, pages |-> pages,
                i |-> 1, results |-> <<>>, attempted |-> <<>>]

export_all_step_try_around_loop ==
    /\ ex.pc = "loop"
    /\ ex.i <= Len(ex.formats)
    /\ LET format_name == ex.formats[ex.i] IN
       ex' = IF format_name \notin Exporters
             THEN [ex EXCEPT !.i = @ + 1]
             ELSE IF format_name \in ex.raising
             THEN [ex EXCEPT !.i = Len(ex.formats) + 1, !.attempted = Append(@, format_name)]
             ELSE [ex EXCEPT !.i = @ + 1, !.attempted = Append(@, format_name),
                             !.results = DictSet(@, format_name,
                                                 ExportResult(format_name, ex.pages))]
    /\ UNCHANGED <<jobVars, layout, exporter, kick>>

(* one iteration of the for loop, lines 395-422 *)
export_all_step ==
    /\ ex.pc = "loop"
    /\ ex.i <= Len(ex.formats)
    /\ LET format_name == ex.formats[ex.i] IN
       ex' = IF format_name \notin Exporters
             THEN [ex EXCEPT !.i = @ + 1]
             ELSE IF format_name \in ex.raising
             THEN [ex EXCEPT !.i = @ + 1, !.attempted = Append(@, format_name)]
             ELSE [ex EXCEPT !.i = @ + 1, !.attempted = Append(@, format_name),
                             !.results = DictSet(@, format_name,
                                                 ExportResult(format_name, ex.pages))]
    /\ UNCHANGED <<jobVars, layout, exporter, kick>>

(* line 424 *)
export_all_return ==
    /\ ex.pc = "loop"
    /\ ex.i > Len(ex.formats)
    /\ ex' = [ex EXCEPT !.pc = "returned"]
    /\ UNCHANGED <<jobVars, layout, exporter, kick>>

NextExport == export_all_step \/ export_all_return

SpecExport == InitExport /\ [][NextExport]_vars

(* ------------- ComicLayoutTool (layout_tools.py) ------------------------ *)
(* LayoutConfig defaults, lines 18-21 *)
page_width == 1200

page_height == 1600

margin == 50

gutter == 20

(* _grid_layout, lines 132-161 (Python // is \div) *)
GridCols(num_panels) == IF num_panels > 1 THEN 2 ELSE 1

GridRows(num_panels) == (num_panels + GridCols(num_panels) - 1) \div GridCols(num_panels)

grid_layout_column_major(num_panels) ==
    LET cols == GridCols(num_panels)
        rows == GridRows(num_panels)
        available_width == page_width - (2 * margin) - ((cols - 1) * gutter)
        available_height == page_height - (2 * margin) - ((rows - 1) * gutter)
        panel_width == available_width \div cols
        panel_height == available_height \div rows
    IN  [k \in 1..num_panels |->
            LET i == k - 1
                row == i % rows
                col == i \div rows
            IN  [x |-> margin + col * (panel_width + gutter),
                 y |-> margin + row * (panel_height + gutter),
                 width |-> panel_width, height |-> panel_height]]

grid_layout(num_panels) ==
    LET cols == GridCols(num_panels)
        rows == GridRows(num_panels)
        available_width == page_width - (2 * margin) - ((cols - 1) * gutter)
        available_height == page_height - (2 * margin) - ((rows - 1) * gutter)
        panel_width == available_width \div cols
        panel_height == available_height \div rows
    IN  [k \in 1..num_panels |->
            LET i == k - 1
                row == i \div cols
                col == i % cols
            IN  [x |-> margin + col * (panel_width + gutter),
                 y |-> margin + row * (panel_height + gutter),
                 width |-> panel_width, height |-> panel_height]]

(* a panel's image_path: a readable image, absent, or a path that cannot  *)
(* be opened                                                              *)
ImageKinds == {"image", "None", "unreadable"}

(* _place_panel, lines 175-208: what ends up drawn in the rectangle *)
place_panel(panel_data, position) ==
    [position |-> position,
     drawn |-> IF panel_data.image_path = "None" THEN "nothing"
               ELSE IF panel_data.image_path = "unreadable" THEN "nothing"
               ELSE "image and border"]

(* the panels handed to _run: any number of panels, those after the first *)
(* MaxDegraded all with a readable image                                  *)
PanelLists ==
    UNION {{[k \in 1..n |-> [image_path |-> IF k <= MaxDegraded THEN kinds[k] ELSE "image"]] :
              kinds \in [1..MaxDegraded -> ImageKinds]} : n \in 1..MaxGridPanels}

InitLayout ==
    /\ jobs = <<>>
    /\ data = <<>>
    /\ pc = [j \in JobIds |-> "none"]
    /\ running = 0
    /\ loc = EmptyLoc
    /\ cancelled = {}
    /\ response = None
    /\ ex = [pc |-> "idle"]
    /\ exporter = [pc |-> "idle"]
    /\ kick = [pc |-> "idle"]
    /\ \E panels \in PanelLists :
          layout = [pc |-> "positions", panels |-> panels, panel_positions |-> <<>>,
                    rendered |-> <<>>]

(* _run lines 82-87 with layout_style "grid" (every style ends in          *)
(* _grid_layout, lines 120-128 and 163-173)                               *)
layout_calculate_positions ==
    /\ layout.pc = "positions"
    /\ layout' = [layout EXCEPT !.pc = "place",
                                !.panel_positions = grid_layout(Len(layout.panels))]
    /\ UNCHANGED <<jobVars, ex, exporter, kick>>

(* _run lines 89-91: zip(panels, panel_positions) *)
layout_place_panels ==
    /\ layout.pc = "place"
    /\ layout' = [layout EXCEPT !.pc = "save",
                                !.rendered = [k \in 1..Len(layout.panels) |->
                                    place_panel(layout.panels[k], layout.panel_positions[k])]]
    /\ UNCHANGED <<jobVars, ex, exporter, kick>>

(* _run lines 99-104 *)
layout_save_page ==
    /\ layout.pc = "save"
    /\ layout' = [layout EXCEPT !.pc = "returned"]
    /\ UNCHANGED <<jobVars, ex, exporter, kick>>

NextLayout == layout_calculate_positions \/ layout_place_panels \/ layout_save_page

SpecLayout == InitLayout /\ [][NextLayout]_vars

(* ------------- the export tools (export_tools.py 37-275) ---------------- *)
(* what is found at a page path: an image file, a file that is no image,  *)
(* or nothing                                                             *)
PageKinds == {"image", "not_image", "missing"}

ExportPageLists == UNION {[1..n -> PageKinds] : n \in 0..MaxExportPages}

Titles == {"Comic Book", "Other Title"}

(* whether the body of the per-page try block gets through: PDF and web   *)
(* open the page as an image (lines 72, 231), CBZ copies any file (163)   *)
PageAdded(name, kind) ==
    IF name = "cbz" THEN kind # "missing" ELSE kind = "image"

(* page_count of the returned ExportResult: lines 116 and 182 give        *)
(* len(pages), line 271 gives len(web_pages)                              *)
PageCount(name, pages, written) ==
    IF name = "web" THEN Len(written) ELSE Len(pages)

(* ComicInfo.txt, lines 169-170 *)
Manifest(name, title, pages) ==
    IF name = "cbz" THEN Some([title |-> title, pages |-> Len(pages)]) ELSE None

StartedRun(t) == [t EXCEPT !.pc = "loop", !.idx = 1, !.written = <<>>,
                           !.manifest = None, !.result = None]

InitTool ==
    /\ jobs = <<>>
    /\ data = <<>>
    /\ pc = [j \in JobIds |-> "none"]
    /\ running = 0
    /\ loc = EmptyLoc
    /\ cancelled = {}
    /\ response = None
    /\ ex = [pc |-> "idle"]
    /\ layout = [pc |-> "idle"]
    /\ kick = [pc |-> "idle"]
    /\ \E name \in Exporters, pages \in ExportPageLists, title \in Titles :
          exporter = [pc |-> "loop", name |-> name, pages |-> pages, title |-> title,
                  idx |-> 1, written |-> <<>>, manifest |-> None, result |-> None,
                  first |-> None]

(* one iteration of the page loop (lines 70-99, 158-166, 229-259): the    *)
(* page becomes page idx of the PDF, entry page_<idx> of the archive or   *)
(* images/page_<idx>.jpg; a page that cannot be added is logged and       *)
(* skipped                                                                *)
tool_add_page ==
    /\ exporter.pc = "loop"
    /\ exporter.idx <= Len(exporter.pages)
    /\ exporter' = [exporter EXCEPT
                  !.idx = @ + 1,
                  !.written = IF PageAdded(exporter.name, exporter.pages[exporter.idx])
                              THEN Append(@, exporter.idx) ELSE @]
    /\ UNCHANGED <<jobVars, ex, layout, kick>>

(* after the loop (lines 101-116, 168-182, 261-271): manifest or viewer,  *)
(* then the ExportResult                                                  *)
tool_return ==
    /\ exporter.pc = "loop"
    /\ exporter.idx > Len(exporter.pages)
    /\ exporter' = [exporter EXCEPT
                  !.pc = "returned",
                  !.manifest = Manifest(exporter.name, exporter.title, exporter.pages),
                  !.result = Some([format |-> exporter.name,
                                   page_count |-> PageCount(exporter.name, exporter.pages,
                                                            exporter.written)])]
    /\ UNCHANGED <<jobVars, ex, layout, kick>>

(* the outer except (lines 118-120, 184-186, 273-275): creating the       *)
(* output, saving it or reading its size fails                            *)
tool_raise ==
    /\ exporter.pc = "loop"
    /\ exporter' = [exporter EXCEPT !.pc = "raised", !.written = <<>>, !.manifest = None]
    /\ UNCHANGED <<jobVars, ex, layout, kick>>

tool_run_again_keeping_pages ==
    /\ exporter.pc = "returned"
    /\ exporter.first = None
    /\ exporter' = [exporter EXCEPT !.pc = "loop", !.idx = 1, !.manifest = None, !.result = None,
                            !.first = exporter.result]
    /\ UNCHANGED <<jobVars, ex, layout, kick>>

(* _run is called a second time with the same pages, title and output:    *)
(* everything it builds is local to the call, the output is written anew  *)
tool_run_again ==
    /\ exporter.pc = "returned"
    /\ exporter.first = None
    /\ exporter' = [StartedRun(exporter) EXCEPT !.first = exporter.result]
    /\ UNCHANGED <<jobVars, ex, layout, kick>>

NextTool == tool_add_page \/ tool_return \/ tool_raise \/ tool_run_again

SpecTool == InitTool /\ [][NextTool]_vars

(* ------------- one run of a caller of the crews ------------------------ *)
(* generate_from_pdf (main.py 39-164), generate_from_text (166-263) and   *)
(* the verification script (tests/verify_pipeline.py 29-124), each with   *)
(* its own handling of what a kickoff gives back.                         *)
Callers == {"generate_from_pdf", "generate_from_text", "verify_pipeline"}

StagesOf(caller) ==
    CASE caller = "generate_from_pdf" -> <<"intake", "content", "visual", "synthesis">>
      [] caller = "generate_from_text" -> <<"content", "visual", "synthesis">>
      [] OTHER -> <<"content">>

(* the keyword options a call may give; None is an option left out       *)
(* (target_audience is no parameter of generate_from_pdf, so a call that  *)
(* fits both entry points does not give it)                               *)
CallOptions ==
    [art_style : {None, Some("manga")},
     target_pages : {None, Some(5)},
     target_audience : {None},
     output_formats : {None, Some(<<>>), Some(<<"cbz">>)}]

(* the config dict the generator was built with *)
Configs == [target_audience : {None, Some("children")}]

OptGet(opt, default) == IF opt = None THEN default ELSE opt[1]

(* content_inputs: main.py 87-95 (parameters with their defaults of lines *)
(* 42-45, audience from self.config) and 186-194 (everything from kwargs) *)
content_inputs_of(fn, config, kwargs) ==
    IF fn = "generate_from_pdf"
    THEN [target_audience |-> OptGet(config.target_audience, "general"),
          target_pages |-> OptGet(kwargs.target_pages, 20),
          art_style |-> OptGet(kwargs.art_style, "cartoon")]
    ELSE IF fn = "generate_from_text"
    THEN [target_audience |-> OptGet(kwargs.target_audience, "general"),
          target_pages |-> OptGet(kwargs.target_pages, 20),
          art_style |-> OptGet(kwargs.art_style, "cartoon")]
    ELSE [target_audience |-> "general", target_pages |-> 1, art_style |-> "flux"]

(* synthesis_inputs["output_formats"]: main.py 60 and 151                 *)
(* (output_formats or ["pdf"]) and 251 (kwargs.get with default ["pdf"])  *)
output_formats_of(fn, kwargs) ==
    IF fn = "generate_from_pdf"
    THEN IF OptGet(kwargs.output_formats, <<>>) = <<>> THEN <<"pdf">>
         ELSE kwargs.output_formats[1]
    ELSE OptGet(kwargs.output_formats, <<"pdf">>)

(* verify_pipeline.py 86 *)
max_retries == 3

(* verify_pipeline.py 95 *)
wait_time(attempt) == (attempt + 1) * 10

(* what a kickoff gives back: structured output, output without the      *)
(* structured part, a rate-limit (429) error, any other error             *)
KickoffOutcomes == {"ok", "no_output", "rate_limit", "error"}

InitKick ==
    /\ jobs = <<>>
    /\ data = <<>>
    /\ pc = [j \in JobIds |-> "none"]
    /\ running = 0
    /\ loc = EmptyLoc
    /\ cancelled = {}
    /\ response = None
    /\ ex = [pc |-> "idle"]
    /\ layout = [pc |-> "idle"]
    /\ exporter = [pc |-> "idle"]
    /\ \E caller \in Callers, config \in Configs, kwargs \in CallOptions,
          agentops_api_key \in BOOLEAN, AGENTOPS_AVAILABLE \in BOOLEAN :
          /\ caller = "verify_pipeline" =>
                (config.target_audience = None /\ \A k \in DOMAIN kwargs : kwargs[k] = None)
          /\ kick = [pc |-> "stage", caller |-> caller, config |-> config, kwargs |-> kwargs,
                     agentops_api_key |-> agentops_api_key,
                     AGENTOPS_AVAILABLE |-> AGENTOPS_AVAILABLE,
                     stage |-> 1, attempt |-> 0, errors |-> <<>>, waits |-> <<>>,
                     started |-> <<>>, content_inputs |-> None, output_formats |-> None,
                     error |-> "none"]

Raised(k, error) == [k EXCEPT !.pc = "raised", !.error = error]

(* the stage's kickoff has been called with its inputs *)
Started(k) ==
    LET st == StagesOf(k.caller)[k.stage] IN
    [k EXCEPT !.started = Append(@, st),
              !.content_inputs =
                  IF st = "content"
                  THEN Some(content_inputs_of(k.caller, k.config, k.kwargs)) ELSE @,
              !.output_formats =
                  IF st = "synthesis" THEN Some(output_formats_of(k.caller, k.kwargs)) ELSE @]

(* the stage is over: the next one, or the return of the caller *)
Advanced(k) ==
    IF k.stage = Len(StagesOf(k.caller))
    THEN [k EXCEPT !.pc = "returned"]
    ELSE [k EXCEPT !.stage = @ + 1]

(* a stage of a generator entry point: "if settings.agentops_api_key:     *)
(* agentops.start_session(...)" (main.py 66-67, 84-85, 113-114, 143-144,  *)
(* 183-184, 212-213, 242-243) names the module whether or not its import  *)
(* succeeded (lines 11-16); then the kickoff and what is made of it       *)
generator_stage(outcome) ==
    LET st == StagesOf(kick.caller)[kick.stage] IN
    /\ kick.pc = "stage"
    /\ kick.caller # "verify_pipeline"
    /\ kick' =
         IF kick.agentops_api_key /\ ~kick.AGENTOPS_AVAILABLE
         THEN Raised(kick, "name 'agentops' is not defined")
         ELSE IF outcome \in {"rate_limit", "error"}
         THEN Raised([Started(kick) EXCEPT !.errors = Append(@, outcome)], "crew error")
         ELSE IF outcome = "no_output" /\ st = "intake"
         THEN Raised(Started(kick), "Document processing failed")
         ELSE IF outcome = "no_output" /\ st = "content"
         THEN Raised(Started(kick),
                     "Content generation failed: No structured output received")
         ELSE IF outcome = "no_output" /\ st = "synthesis"
         THEN Raised(Started(kick), "'NoneType' object has no attribute 'title'")
         ELSE Advanced(Started(kick))
    /\ UNCHANGED <<jobVars, ex, layout, exporter>>

(* the retry loop of the verification script, verify_pipeline.py 84-99 *)
verify_kickoff_attempt(outcome) ==
    /\ kick.pc = "stage"
    /\ kick.caller = "verify_pipeline"
    /\ kick.attempt < max_retries
    /\ kick' =
         IF outcome \in {"ok", "no_output"}
         THEN Advanced(Started(kick))
         ELSE IF outcome = "rate_limit" /\ kick.attempt < max_retries - 1
         THEN [Started(kick) EXCEPT !.pc = "sleep",
                                    !.errors = Append(@, outcome),
                                    !.waits = Append(@, wait_time(kick.attempt))]
         ELSE Raised([Started(kick) EXCEPT !.errors = Append(@, outcome)], "crew error")
    /\ UNCHANGED <<jobVars, ex, layout, exporter>>

(* time.sleep(wait_time) is over: the next pass of the for loop *)
verify_sleep_over ==
    /\ kick.pc = "sleep"
    /\ kick' = [kick EXCEPT !.pc = "stage", !.attempt = @ + 1]
    /\ UNCHANGED <<jobVars, ex, layout, exporter>>

NextKick ==
    \/ \E outcome \in KickoffOutcomes : generator_stage(outcome)
    \/ \E outcome \in KickoffOutcomes : verify_kickoff_attempt(outcome)
    \/ verify_sleep_over

SpecKick == InitKick /\ [][NextKick]_vars

(* ------------------------------ behaviours ----------------------------- *)
TaskStep(j) ==
    \/ task_start(j)
    \/ \E ok \in BOOLEAN : task_content_label(j, ok)
    \/ task_visual_label(j)
    \/ task_call_generator(j)
    \/ \E o \in IntakeOutcomes : generate_intake(j, o)
    \/ \E o \in ContentOutcomes, s \in Scripts : generate_content(j, o, s)
    \/ \E r \in ServiceResponses, c \in CrewOutcomes : kickoff_for_each_panel(j, r, c)
    \/ generate_synthesis_inputs(j)
    \/ \E o \in SynthesisOutcomes, p \in PageLists, e \in SUBSET {"pdf"} :
          generate_synthesis(j, o, p, e)
    \/ task_mark_completed(j)
    \/ task_set_result(j)
    \/ task_except(j)
    \/ task_return(j)

(* the steps of the service, for clients that choose their options in Options *)
JobNext(Options) ==
    \/ \E t \in TextInputs, f \in FileInputs, o \in Options, w \in BOOLEAN :
          generate_comic(t, f, o, w)
    \/ \E j \in JobIds : get_job_status(j)
    \/ \E j \in JobIds, f \in DownloadFormats, e \in BOOLEAN : download_comic(j, f, e)
    \/ \E j \in JobIds : TaskStep(j)

(* clients that leave the options of the form at their defaults *)
Next == JobNext({DefaultOptions})

Spec == Init /\ [][Next]_vars

(* clients that also choose art style, page count and audience *)
NextOptions == JobNext(RequestOptions)

SpecOptions == Init /\ [][NextOptions]_vars

(* Cancellation by the caller (spec section 5): the job is marked failed   *)
(* while its task is inside one of the generator's external calls.         *)
cancel_job(j) ==
    /\ running = j
    /\ pc[j] \in SuspendedPcs
    /\ jobs[j].status = "processing"
    /\ jobs' = [jobs EXCEPT ![j].status = "failed", ![j].message = "cancelled"]
    /\ cancelled' = cancelled \cup {j}
    /\ response' = None
    /\ UNCHANGED <<data, pc, running, loc, ex, layout, exporter, kick>>

NextCancel == JobNext({DefaultOptions}) \/ \E j \in JobIds : cancel_job(j)

SpecCancel == Init /\ [][NextCancel]_vars

(* =============================== claims ================================ *)
AllowedTransitions == {<<"queued", "processing">>, <<"processing", "completed">>,
                       <<"processing", "failed">>}

(* C1: a job's status is always one of queued, processing, completed,     *)
(* failed; a new job starts queued; the only changes are queued ->        *)
(* processing (made by the start of generate_comic_task), processing ->   *)
(* completed and processing -> failed; completed and failed never change. *)
C1_StatusStateMachine ==
    [][\A j \in DOMAIN jobs' :
          /\ jobs'[j].status \in StatusValues
          /\ j \notin Created => jobs'[j].status = "queued"
          /\ (j \in Created /\ jobs'[j].status # jobs[j].status) =>
                /\ <<jobs[j].status, jobs'[j].status>> \in AllowedTransitions
                /\ jobs[j].status = "queued" => (pc[j] = "pending" /\ running' = j)]_vars

C1_Witness ==
    \E j, k \in Created : /\ jobs[j].status = "completed" /\ pc[j] = "done"
                          /\ jobs[k].status = "failed" /\ pc[k] = "done"

(* C2: a job is completed only if its export stage produced at least one  *)
(* artifact and the returned ComicBook has at least one page.             *)
C2_CompletedOnlyAfterExport ==
    \A j \in Created :
        (running = j /\ jobs[j].status = "completed") =>
            (loc.exported # {} /\ Len(loc.final_comic[1].pages) > 0)

IsRealArtwork(a) == a # None /\ ~IsPendingHandle(a[1].image_url)

RealArtworks(results) == {i \in 1..Len(results) : IsRealArtwork(results[i])}

(* C3: a job is failed because of a panel's image generation only when no *)
(* panel of the batch produced real artwork.                              *)
C3_PanelFailureKeepsJob ==
    [][\A j \in Created :
          (jobs[j].status # "failed" /\ jobs'[j].status = "failed"
             /\ loc.exc = "ModelsLab API error") =>
          RealArtworks(loc.panel_results) = {}]_vars

IsExporter(f) == f \in Exporters

(* C4: when export_all returns, every requested format that has an        *)
(* exporter was attempted, in request order, whichever exporters raised,  *)
(* and every exporter that did not raise has its result in the map.       *)
C4_EveryFormatAttempted ==
    ex.pc = "returned" =>
        /\ ex.attempted = SelectSeq(ex.formats, IsExporter)
        /\ \A f \in (Range(ex.formats) \cap Exporters) \ ex.raising :
              f \in DOMAIN ex.results /\ ex.results[f].format = f

C4_Witness ==
    /\ ex.pc = "returned"
    /\ \E i, k \in 1..Len(ex.formats) :
          /\ i < k
          /\ ex.formats[i] \in ex.raising
          /\ ex.formats[k] \in Exporters \ ex.raising
          /\ ex.formats[k] \in DOMAIN ex.results

(* C5: the map returned by export_all has one entry for every requested   *)
(* format, failed ones included.                                          *)
C5_EntryForEveryFormat ==
    ex.pc = "returned" => DOMAIN ex.results = Range(ex.formats)

(* the formats a job message names: no message the task can store         *)
(* mentions a format                                                      *)
NamedFormats(message) == {f \in FormatNames : message = f}

(* C6: a finished job all of whose requested exports failed is failed and *)
(* its message names every failed format; a completed job with a failed   *)
(* export carries a warnings list.                                        *)
C6_ExportFailuresReported ==
    \A j \in Created :
        (running = j /\ pc[j] = "return" /\ loc.export_failed # {}) =>
            /\ loc.exported = {} =>
                  (jobs[j].status = "failed"
                     /\ loc.export_failed \subseteq NamedFormats(jobs[j].message))
            /\ jobs[j].status = "completed" => "warnings" \in DOMAIN jobs[j].result[1]

NumbersOf(script) == {script[i].panel_number : i \in 1..Len(script)}

(* C7: for a script whose panels are numbered 1..n, the artworks handed   *)
(* to synthesis are in panel_number order, the i-th being panel i.        *)
C7_ArtworksInPanelOrder ==
    \A j \in Created :
        (running = j /\ pc[j] = "g_synthesis"
           /\ NumbersOf(loc.script[1]) = 1..Len(loc.script[1])) =>
            \A i \in 1..Len(loc.panel_artworks[1]) :
                loc.panel_artworks[1][i] # None =>
                    loc.panel_artworks[1][i][1].panel_number = i

(* C8: no artwork handed to synthesis has a pending job handle as its     *)
(* image reference.                                                       *)
C8_NoPendingHandleDownstream ==
    \A j \in Created :
        (running = j /\ pc[j] = "g_synthesis") =>
            \A i \in 1..Len(loc.panel_artworks[1]) :
                loc.panel_artworks[1][i] # None =>
                    ~IsPendingHandle(loc.panel_artworks[1][i][1].image_url)

(* C9: while a job is suspended in an external service call, every other  *)
(* job can be polled, a waiting job can leave queued, and a new job can   *)
(* be accepted while ids are left.                                        *)
C9_JobsAdvanceIndependently ==
    \A a \in Created :
        (running = a /\ pc[a] \in SuspendedPcs) =>
            \A b \in Created \ {a} :
                /\ ENABLED get_job_status(b)
                /\ pc[b] = "pending" => ENABLED task_start(b)

(* C10: a job the caller marked failed stays failed with no result.       *)
C10_CancelledStaysFailed ==
    \A j \in cancelled : jobs[j].status = "failed" /\ jobs[j].result = None

(* C11: a job's progress is always between 0 and 1 (0..10 tenths) and no  *)
(* update of generate_comic or generate_comic_task, the failure path      *)
(* included, lowers it.                                                   *)
C11_ProgressMonotone ==
    [][\A j \in DOMAIN jobs' :
          /\ jobs'[j].progress \in 0..10
          /\ j \in Created => jobs'[j].progress >= jobs[j].progress]_vars

C11_Witness ==
    \E j \in Created : /\ jobs[j].status = "failed" /\ jobs[j].progress = 6
                       /\ pc[j] = "done"

(* a state get_job_status can observe: no task holds the event loop *)
Observable == running = 0

IsStatusResponse(r) == r # None /\ r[1].code = 200 /\ "body" \in DOMAIN r[1]

(* C12: in every state get_job_status can observe, and in every body it   *)
(* returns, result is non-null only if status is completed.               *)
C12_ResultOnlyWhenCompleted ==
    /\ Observable => \A j \in Created :
                        jobs[j].result # None => jobs[j].status = "completed"
    /\ IsStatusResponse(response) =>
          (response[1].body[1].result # None => response[1].body[1].status = "completed")

C12_Witness ==
    /\ IsStatusResponse(response)
    /\ response[1].body[1].status = "completed"
    /\ response[1].body[1].result # None
    /\ \E j \in Created : jobs[j].status = "failed" /\ pc[j] = "done"

IsDownloadResponse(r) == r # None /\ "detail" \in DOMAIN r[1]

(* C13: download_comic answers with a file only for an existing job that  *)
(* is completed and whose result names a file that exists; an unknown job *)
(* is not-found (404) and a job that is not completed is not-ready (400). *)
C13_DownloadOnlyWhenReady ==
    IsDownloadResponse(response) =>
        LET r == response[1] IN
        /\ r.job_id \notin Created => (r.code = 404 /\ r.detail = "Job not found")
        /\ (r.job_id \in Created /\ jobs[r.job_id].status # "completed") =>
              (r.code = 400 /\ r.detail = "Comic not ready" /\ r.file = "None")
        /\ r.code = 200 =>
              /\ r.job_id \in Created
              /\ jobs[r.job_id].status = "completed"
              /\ jobs[r.job_id].result # None
              /\ r.file = jobs[r.job_id].result[1].file_path
              /\ r.file # "None"
              /\ r.file_exists

C13_Witness ==
    /\ IsDownloadResponse(response)
    /\ response[1].code = 200
    /\ \E j \in Created : jobs[j].status = "failed" /\ pc[j] = "done"

(* C14: a download answered with a file serves the artifact of the        *)
(* requested format: the format asked for is the format of the job's      *)
(* stored artifact.                                                       *)
C14_DownloadServesRequestedFormat ==
    (IsDownloadResponse(response) /\ response[1].code = 200) =>
        response[1].format = jobs[response[1].job_id].result[1].format

Overlap(a, b) ==
    /\ a.x < b.x + b.width /\ b.x < a.x + a.width
    /\ a.y < b.y + b.height /\ b.y < a.y + a.height

(* C15: for every panel count, every rectangle of the grid has            *)
(* non-negative coordinates and positive size, lies between the margins   *)
(* and overlaps no other rectangle of the page.                           *)
C15_GridRectanglesInsidePage ==
    layout.pc \in {"place", "save", "returned"} =>
        LET pos == layout.panel_positions IN
        /\ Len(pos) = Len(layout.panels)
        /\ \A k \in 1..Len(pos) :
              /\ pos[k].x >= margin /\ pos[k].y >= margin
              /\ pos[k].width > 0 /\ pos[k].height > 0
              /\ pos[k].x + pos[k].width <= page_width - margin
              /\ pos[k].y + pos[k].height <= page_height - margin
        /\ \A a, b \in 1..Len(pos) : a # b => ~Overlap(pos[a], pos[b])

HasArtwork(panel_data) == panel_data.image_path = "image"

(* C16: the composed page has one rectangle per panel, each in the grid   *)
(* cell of its reading-order index, and a panel without usable artwork is *)
(* drawn as a placeholder.                                                *)
C16_PlaceholderForMissingArtwork ==
    layout.pc \in {"save", "returned"} =>
        /\ Len(layout.rendered) = Len(layout.panels)
        /\ \A k \in 1..Len(layout.panels) :
              /\ layout.rendered[k].position = grid_layout(Len(layout.panels))[k]
              /\ ~HasArtwork(layout.panels[k]) => layout.rendered[k].drawn = "placeholder"

(* C17: the art style, target page count and target audience of the      *)
(* submission are the ones the content stage is started with, on the      *)
(* document path and on the text path.                                    *)
C17_OptionsReachContentStage ==
    [][\A j \in JobIds :
          (pc[j] = "g_content" /\ pc'[j] # "g_content") =>
              loc'.content_inputs = data[j].options]_vars

(* C18: every job that is queued for its task carries exactly one        *)
(* source, a document or raw text.                                        *)
C18_ExactlyOneSource ==
    \A j \in Created :
        pc[j] = "pending" => ((data[j].text = "None") # (data[j].file_path = "None"))

IntakeFailure == "Document processing failed"

ContentFailures == {"Content generation failed: No structured output received",
                    "validation error for ComicScript"}

(* C19: when intake gives no structured document or the content stage     *)
(* gives no output that fits the script schema, the generator is left at  *)
(* once: the failing stage is not entered again, no later stage has run   *)
(* (no content stage after a failed intake; no panel, artwork, comic or   *)
(* export after either), and the job ends failed with that reason.        *)
C19_IntakeAndContentFailuresAreFatal ==
    \A j \in Created :
        /\ (running = j /\ loc.exc \in {IntakeFailure} \cup ContentFailures) =>
              /\ pc[j] \in {"except", "return"}
              /\ loc.exc = IntakeFailure => loc.content_inputs = None
              /\ loc.script = None /\ loc.panel_inputs = <<>>
              /\ loc.panel_results = <<>> /\ loc.panel_artworks = None
              /\ loc.final_comic = None /\ loc.exported = {}
              /\ pc[j] = "return" =>
                    (jobs[j].status = "failed" /\ jobs[j].message = loc.exc)
        /\ (pc[j] = "done" /\ jobs[j].message \in {IntakeFailure} \cup ContentFailures) =>
              (jobs[j].status = "failed" /\ jobs[j].result = None)

C19_Witness ==
    \E j \in Created :
        /\ pc[j] = "done"
        /\ jobs[j].status = "failed"
        /\ jobs[j].message = IntakeFailure
        /\ \E k \in Created \ {j} :
              /\ pc[k] = "done"
              /\ jobs[k].message \in ContentFailures

(* ------------------------------ liveness ------------------------------- *)
(* The steps the program takes by itself: the event loop runs a queued    *)
(* background task and runs it on to its next call of a crew.  The return *)
(* of a crew call is up to the services behind it: nothing in the program *)
(* bounds the wait (no timeout is passed to any call), so these steps     *)
(* carry no fairness.                                                     *)
LocalStep(j) ==
    \/ task_start(j)
    \/ \E ok \in BOOLEAN : task_content_label(j, ok)
    \/ task_visual_label(j)
    \/ task_call_generator(j)
    \/ generate_synthesis_inputs(j)
    \/ task_mark_completed(j)
    \/ task_set_result(j)
    \/ task_except(j)
    \/ task_return(j)

SpecLive == Init /\ [][Next]_vars /\ \A j \in JobIds : WF_vars(LocalStep(j))

(* C20: every job whose task was queued eventually is completed or        *)
(* failed.                                                                *)
C20_EveryJobTerminates ==
    \A j \in JobIds :
        (pc[j] = "pending") ~> (j \in Created /\ jobs[j].status \in {"completed", "failed"})

(* ------------------------- image requests in flight ------------------- *)
(* every value Settings.max_parallel_panels can be configured to          *)
(* (config.py 87: default 5, ge=1, le=20)                                 *)
ParallelPanelSettings == 1..20

(* kickoff_for_each (main.py 135, 234) works on one panel input at a time: *)
(* while job j is inside it with inputs left, one image request is out     *)
InFlightRequests(j) ==
    IF running = j /\ pc[j] = "g_visual" /\ Len(loc.panel_results) < Len(loc.panel_inputs)
    THEN 1
    ELSE 0

RECURSIVE SumInFlight(_)
SumInFlight(S) ==
    IF S = {} THEN 0
    ELSE LET j == CHOOSE x \in S : TRUE IN InFlightRequests(j) + SumInFlight(S \ {j})

TotalInFlight == SumInFlight(JobIds)

InFlightWithinMaximum ==
    \A max_parallel_panels \in ParallelPanelSettings : TotalInFlight <= max_parallel_panels

(* C21: at every point the image requests in flight, over all jobs, are   *)
(* no more than the configured maximum, whatever value is configured, and *)
(* a request in flight is released: it completes or is timed out.         *)
C21_SlotsBoundedAndReleased ==
    /\ []InFlightWithinMaximum
    /\ \A j \in JobIds : (InFlightRequests(j) = 1) ~> (InFlightRequests(j) = 0)

C25_ArchiveEntriesAndManifest ==
    (exporter.pc = "returned" /\ exporter.name = "cbz") =>
        /\ exporter.written = [k \in 1..Len(exporter.pages) |-> k]
        /\ exporter.manifest # None
        /\ exporter.manifest[1].title = exporter.title
        /\ exporter.manifest[1].pages = Len(exporter.written)

(* C29: the page_count an exporter returns is the number of pages it      *)
(* wrote into the artifact, also when pages were skipped.                 *)
C29_PageCountIsPagesWritten ==
    exporter.pc = "returned" => exporter.result[1].page_count = Len(exporter.written)

(* position of a generator stage in the pipeline; 0 outside the stages *)
StageRank(p) ==
    CASE p = "g_intake" -> 1
      [] p = "g_content" -> 2
      [] p = "g_visual" -> 3
      [] p = "g_synthesis" -> 4
      [] OTHER -> 0

(* C23: within a job a stage is entered only from itself or from its      *)
(* predecessor (the text path enters at the content stage), and the       *)
(* job's progress reaches the artwork value only once the content stage   *)
(* has produced a script.                                                 *)
C23_StagesInOrderAndReportedAfter ==
    [][\A j \in Created :
          /\ (StageRank(pc'[j]) > 0 /\ pc'[j] # pc[j]) =>
                \/ StageRank(pc'[j]) = StageRank(pc[j]) + 1
                \/ (pc[j] = "l187" /\ pc'[j] = "g_content")
          /\ (jobs[j].progress < 6 /\ jobs'[j].progress >= 6) =>
                (running = j /\ loc.script # None)]_vars

StagesInOrder ==
    [][\A j \in Created :
          (StageRank(pc'[j]) > 0 /\ pc'[j] # pc[j]) =>
              \/ StageRank(pc'[j]) = StageRank(pc[j]) + 1
              \/ (pc[j] = "l187" /\ pc'[j] = "g_content")]_vars

(* the grid the layout is specified to have *)
ExpectedCols(n) == IF n = 1 THEN 1 ELSE 2

(* ceil(n / cols) *)
ExpectedRows(n) == CHOOSE r \in 1..n : r * ExpectedCols(n) >= n /\ (r - 1) * ExpectedCols(n) < n

(* C24: n panels give n rectangles of one size; the panel at 0-based      *)
(* index i is in row i div cols and column i mod cols of a grid with 1    *)
(* column for one panel and 2 otherwise and ceil(n / cols) rows, cells    *)
(* next to each other are exactly the gutter apart, and with n below      *)
(* cols * rows the last cell holds no panel.                              *)
C24_GridCellsInReadingOrder ==
    layout.pc \in {"place", "save", "returned"} =>
        LET pos == layout.panel_positions
            n == Len(layout.panels)
            cols == ExpectedCols(n)
            rows == ExpectedRows(n)
            w == pos[1].width
            h == pos[1].height
            CellX(c) == pos[1].x + c * (w + gutter)
            CellY(r) == pos[1].y + r * (h + gutter)
        IN  /\ Len(pos) = n
            /\ \A k \in 1..n :
                  /\ pos[k].width = w /\ pos[k].height = h
                  /\ pos[k].x = CellX((k - 1) % cols)
                  /\ pos[k].y = CellY((k - 1) \div cols)
            /\ {pos[k].x : k \in 1..n} = {CellX(c) : c \in 0..(cols - 1)}
            /\ {pos[k].y : k \in 1..n} = {CellY(r) : r \in 0..(rows - 1)}
            /\ \A a \in 1..n :
                  /\ (a + 1 <= n /\ pos[a].y = pos[a + 1].y) =>
                        pos[a + 1].x - (pos[a].x + pos[a].width) = gutter
                  /\ a + cols <= n =>
                        /\ pos[a + cols].x = pos[a].x
                        /\ pos[a + cols].y - (pos[a].y + pos[a].height) = gutter
            /\ n < cols * rows =>
                  ~\E k \in 1..n : pos[k].x = CellX(cols - 1) /\ pos[k].y = CellY(rows - 1)

C24_Witness ==
    /\ layout.pc = "returned"
    /\ Len(layout.panels) = 5
    /\ Len(layout.panel_positions) = 5
    /\ layout.panel_positions[5].x = margin
    /\ layout.panel_positions[5].y > layout.panel_positions[4].y

StrictlyIncreasing(seq) == \A a, b \in 1..Len(seq) : a < b => seq[a] < seq[b]

(* what the claimed retry rule asks of a failed content kickoff that was  *)
(* the n-th attempt and left the caller in state k                        *)
RetryRule(k, n) ==
    LET e == k.errors[n] IN
    /\ n <= 3
    /\ (e = "rate_limit" /\ n < 3) =>
          (k.pc = "sleep" /\ Len(k.waits) = n /\ StrictlyIncreasing(k.waits))
    /\ (e # "rate_limit" \/ n = 3) => k.pc = "raised"

(* C26: a rate-limit error of the content kickoff is followed by a        *)
(* longer wait and another attempt, up to 3 attempts; any other error,    *)
(* and a rate-limit error of the last attempt, ends the stage as failed.  *)
C26_RateLimitRetriedWithBackoff ==
    [][(Len(kick'.errors) = Len(kick.errors) + 1
          /\ StagesOf(kick.caller)[kick.stage] = "content") =>
          RetryRule(kick', Len(kick'.errors))]_vars

VerifyScriptRetries ==
    [][(Len(kick'.errors) = Len(kick.errors) + 1 /\ kick.caller = "verify_pipeline") =>
          RetryRule(kick', Len(kick'.errors))]_vars

(* C27: every script the content stage hands to the visual stage has its  *)
(* panels numbered contiguously from 1 (the part of the script invariant  *)
(* the model's scripts carry: a script is its list of panel numbers).     *)
C27_AcceptedScriptIsWellFormed ==
    \A j \in Created :
        (running = j /\ pc[j] = "g_visual") =>
            NumbersOf(loc.script[1]) = 1..Len(loc.script[1])

MonitoringMissing == "name 'agentops' is not defined"

(* C28: a run without the monitoring module goes the way the run with it  *)
(* goes: it never ends in a failure that only the missing module causes,  *)
(* whatever the settings are.                                             *)
C28_OutcomeIndependentOfMonitoring ==
    (kick.caller # "verify_pipeline" /\ ~kick.AGENTOPS_AVAILABLE) =>
        kick.error # MonitoringMissing

OtherEntryPoint(fn) ==
    IF fn = "generate_from_pdf" THEN "generate_from_text" ELSE "generate_from_pdf"

(* the stages from content onward, in pipeline order *)
SharedStages == <<"content", "visual", "synthesis">>

FromContent(started) == SelectSeq(started, LAMBDA st : st # "intake")

(* C30: from the content stage onward both entry points, with the same    *)
(* config and the same options, start the same stages in the same order   *)
(* with the same audience, page count, art style and output formats.      *)
C30_EntryPointsAgreeFromContent ==
    kick.caller # "verify_pipeline" =>
        /\ FromContent(kick.started) = SubSeq(SharedStages, 1, Len(FromContent(kick.started)))
        /\ kick.content_inputs # None =>
              kick.content_inputs[1] =
                  content_inputs_of(OtherEntryPoint(kick.caller), kick.config, kick.kwargs)
        /\ kick.output_formats # None =>
              kick.output_formats[1] =
                  output_formats_of(OtherEntryPoint(kick.caller), kick.kwargs)

EntryPointsRunSameStages ==
    kick.caller # "verify_pipeline" =>
        FromContent(kick.started) = SubSeq(SharedStages, 1, Len(FromContent(kick.started)))

====
